---- MODULE Spec2Model ----
(***************************************************************************)
(* Model of the probe plugin of kuzzle-enterprise-probe (lib/index.js):    *)
(* configuration compilation, event routing, the measurement store, the    *)
(* four dispatch operations and the asynchronous flush/notify/reset chain. *)
(*                                                                         *)
(* JavaScript objects are functions from keys to values; an absent key is  *)
(* an undefined property.  Loosely typed configuration values (interval,   *)
(* collects, sampleSize) are tagged [t |-> typeof, v |-> value].           *)
(***************************************************************************)
EXTENDS Integers, Sequences, FiniteSets, TLC

(***************************************************************************)
(* Bounds of the exploration                                               *)
(***************************************************************************)
MaxDispatch == 3      \* dispatch calls
MaxDocs     == 2      \* watcher and sampler dispatch calls among them
MaxFires    == 1      \* timer callbacks
MaxInflight == 2      \* flushes whose promise chain has not settled yet
MaxStream   == 4      \* records of one window in the count of samples
MaxTimers   == 2      \* timers armed for one probe by repeated starts

(***************************************************************************)
(* JavaScript values                                                       *)
(***************************************************************************)
Str(s) == [t |-> "string", v |-> s]
Num(n) == [t |-> "number", v |-> n]
Arr(a) == [t |-> "array", v |-> a]
Bool(b) == [t |-> "boolean", v |-> b]

\* the value ms() yields for a string it cannot parse
NaN == -1000000
\* the value _.get yields for a path that is absent from the document
undefined == -999999

Has(o, k) == k \in DOMAIN o

\* truthiness of a tagged value
TruthyVal(x) ==
  CASE x.t = "string"  -> x.v # ""
    [] x.t = "number"  -> x.v # 0 /\ x.v # NaN
    [] x.t = "boolean" -> x.v
    [] OTHER           -> TRUE

\* truthiness of property k of object o (plain strings: non-empty)
Truthy(o, k) == Has(o, k) /\ TruthyVal(o[k])
TruthyStr(o, k) == Has(o, k) /\ o[k] # ""

\* o without the key k (delete, or assignment of undefined/null)
Without(o, k) == [x \in DOMAIN o \ {k} |-> o[x]]
\* o with o[k] = v
With(o, k, v) == (k :> v) @@ o

Range(s) == {s[i] : i \in 1..Len(s)}
IndexOf(s, x) == \E i \in 1..Len(s) : s[i] = x

RemoveAt(s, i) == [j \in 1..(Len(s) - 1) |-> IF j < i THEN s[j] ELSE s[j + 1]]

(***************************************************************************)
(* The ms library on the duration strings used by the configurations       *)
(***************************************************************************)
ms(s) ==
  CASE s = "1s"     -> 1000
    [] s = "1 hour" -> 3600000
    [] s = "0s"     -> 0
    [] s = "-1s"    -> -1000
    [] OTHER        -> NaN

isNaN(n) == n = NaN

(***************************************************************************)
(* Configurations handed to init: sequences of <<name, raw definition>>    *)
(* in the key order of the configuration object.                           *)
(***************************************************************************)
Events == {"e1", "e2", "e3"}

Entry(n, d) == [name |-> n, def |-> d]

CfgMonitor == <<
  Entry("m1", [type |-> "monitor", hooks |-> <<"e1", "e2", "e1">>]),
  Entry("mv", [type |-> "monitor", hooks |-> <<"e2">>, interval |-> Str("none"),
               volatile |-> TRUE]) >>

\* a monitor flushed by its timer only
CfgTimed == <<
  Entry("m2", [type |-> "monitor", hooks |-> <<"e1">>, interval |-> Str("1s")]) >>

CfgCounter == <<
  Entry("c1", [type |-> "counter", increasers |-> <<"e1">>, decreasers |-> <<"e2">>]),
  Entry("c2", [type |-> "counter", increasers |-> <<"e2", "e2">>,
               decreasers |-> <<"e1">>, interval |-> Num(30)]),
  Entry("cv", [type |-> "counter", increasers |-> <<"e1">>, decreasers |-> <<>>,
               volatile |-> TRUE]) >>

CfgWatcher == <<
  Entry("w1", [type |-> "watcher", index |-> "i", collection |-> "c",
               filter |-> "f1"]),
  Entry("w3", [type |-> "watcher", index |-> "i", collection |-> "c",
               collects |-> Str("*"), interval |-> Str("1 hour")]) >>

\* a watcher collecting a list of fields, flushed at every document
CfgCollects == <<
  Entry("w2", [type |-> "watcher", index |-> "i", collection |-> "c",
               filter |-> "f1", collects |-> Arr(<<"a.x", "b.z">>)]) >>

CfgSampler == <<
  Entry("s1", [type |-> "sampler", index |-> "i", collection |-> "c",
               filter |-> "f1", collects |-> Str("*"), sampleSize |-> Num(1),
               interval |-> Str("1s")]),
  Entry("s2", [type |-> "sampler", index |-> "i", collection |-> "c",
               filter |-> "f1", collects |-> Arr(<<"a">>), sampleSize |-> Num(2),
               interval |-> Str("1s")]) >>

\* a sampler without a filter next to a filtered one
CfgUnfiltered == <<
  Entry("s1", [type |-> "sampler", index |-> "i", collection |-> "c",
               filter |-> "f1", collects |-> Str("*"), sampleSize |-> Num(1),
               interval |-> Str("1s")]),
  Entry("s3", [type |-> "sampler", index |-> "i", collection |-> "c",
               collects |-> Arr(<<"a.y", "b">>), sampleSize |-> Num(1),
               interval |-> Num(30)]) >>

\* a watcher and a sampler on the same collection, with different filters
CfgMixed == <<
  Entry("w1", [type |-> "watcher", index |-> "i", collection |-> "c",
               filter |-> "f1"]),
  Entry("s3", [type |-> "sampler", index |-> "i", collection |-> "c",
               collects |-> Arr(<<"a.y", "b">>), sampleSize |-> Num(1),
               interval |-> Num(30)]) >>

\* two counters flushed at every event, increased by the same event
CfgPair == <<
  Entry("c1", [type |-> "counter", increasers |-> <<"e1">>, decreasers |-> <<"e2">>]),
  Entry("c3", [type |-> "counter", increasers |-> <<"e1">>, decreasers |-> <<"e3">>]) >>

CfgEmpty == << >>

CfgConflict == <<
  Entry("c1", [type |-> "counter", increasers |-> <<"e1">>, decreasers |-> <<"e2">>]),
  Entry("bad", [type |-> "counter", increasers |-> <<"e1", "e2">>,
                decreasers |-> <<"e2">>]) >>

\* a sampler whose interval string parses to 0
CfgZero == <<
  Entry("sz", [type |-> "sampler", index |-> "i", collection |-> "c",
               filter |-> "f1", collects |-> Str("*"), sampleSize |-> Num(1),
               interval |-> Str("0s")]) >>

\* a sampler with a negative interval and a negative sampleSize
CfgNegative == <<
  Entry("sn", [type |-> "sampler", index |-> "i", collection |-> "c",
               filter |-> "f1", collects |-> Str("*"), sampleSize |-> Num(-1),
               interval |-> Str("-1s")]) >>

\* a probe of a type the plugin does not know
CfgUnknown == <<
  Entry("g1", [type |-> "gauge", hooks |-> <<"e1">>]) >>

\* a counter without decreasers, after a valid monitor
CfgLacking == <<
  Entry("m1", [type |-> "monitor", hooks |-> <<"e1">>]),
  Entry("c4", [type |-> "counter", increasers |-> <<"e1">>]) >>

\* definitions that fail one check of _configureProbes each
SamplerDef(d) ==
  d @@ [type |-> "sampler", index |-> "i", collection |-> "c",
        collects |-> Str("*"), sampleSize |-> Num(1), interval |-> Str("1s")]

BadDefs == <<
  [hooks |-> <<"e1">>],
  [type |-> "monitor", hooks |-> <<"e1">>, interval |-> Str("often")],
  [type |-> "watcher", collection |-> "c"],
  [type |-> "watcher", index |-> "i", collection |-> ""],
  [type |-> "watcher", index |-> "i", collection |-> "c", collects |-> Num(123)],
  [type |-> "watcher", index |-> "i", collection |-> "c",
   collects |-> Str("a")],
  SamplerDef([collects |-> Arr(<< >>)]),
  SamplerDef([interval |-> Str("none")]),
  SamplerDef([interval |-> Num(0)]),
  [type |-> "sampler", index |-> "i", collection |-> "c",
   collects |-> Str("*"), interval |-> Str("1s")],
  SamplerDef([sampleSize |-> Num(0)]),
  SamplerDef([sampleSize |-> Str("2")]) >>

\* a valid definition followed by an invalid one, and the other way round
CfgBad(i) ==
  LET ok  == Entry("ok", [type |-> "monitor", hooks |-> <<"e1">>,
                          interval |-> Str("1 hour")])
      bad == Entry("bad", BadDefs[(i + 1) \div 2])
  IN IF i % 2 = 1 THEN <<ok, bad>> ELSE <<bad, ok>>

Configs ==
  <<CfgMonitor, CfgTimed, CfgCounter, CfgWatcher, CfgCollects, CfgSampler,
    CfgUnfiltered, CfgMixed, CfgPair, CfgEmpty, CfgConflict, CfgZero, CfgNegative,
    CfgUnknown, CfgLacking>>
  \o [i \in 1..(2 * Len(BadDefs)) |-> CfgBad(i)]

(***************************************************************************)
(* _configureProbes: validation and normalisation of one raw definition.   *)
(* The result is [ok |-> TRUE, probe |-> p] or [ok |-> FALSE, error |-> e].*)
(***************************************************************************)
Thrown(e) == [ok |-> FALSE, error |-> e]
Ok(p) == [ok |-> TRUE, probe |-> p]

\* lines 724-733: 'none' becomes undefined, a string goes through ms()
NormalizeInterval(probe) ==
  IF ~Has(probe, "interval") THEN probe
  ELSE IF probe.interval.t = "string" /\ probe.interval.v = "none"
    THEN Without(probe, "interval")
  ELSE IF probe.interval.t = "string"
    THEN With(probe, "interval", Num(ms(probe.interval.v)))
  ELSE probe

\* lines 753-765: an empty collects array becomes null
NormalizeCollects(probe) ==
  IF Truthy(probe, "collects") /\ probe.collects.t = "array"
     /\ Len(probe.collects.v) = 0
  THEN Without(probe, "collects")
  ELSE probe

\* lines 773-775: a missing filter becomes the empty filter
NormalizeFilter(probe) ==
  IF Has(probe, "filter") THEN probe ELSE With(probe, "filter", "{}")

ListOf(probe, k) == IF Has(probe, k) THEN probe[k] ELSE << >>

\* Conflict without the test of line 740
Conflict_never(probe) == FALSE

\* line 740: a counter with an event both in increasers and in decreasers
Conflict(probe) ==
  /\ probe.type = "counter"
  /\ Range(ListOf(probe, "increasers"))
       \cap Range(ListOf(probe, "decreasers")) # {}

ConfigureOne(name, def) ==
  LET probe0 == With(def, "name", name)
      probe1 == NormalizeInterval(probe0)
      isWS   == probe0.type \in {"watcher", "sampler"}
      probe2 == IF isWS THEN NormalizeFilter(NormalizeCollects(probe1)) ELSE probe1
  IN
  IF ~TruthyStr(probe0, "type")
    THEN Thrown([probe |-> name, what |-> "type"])
  ELSE IF probe0.type = "sampler"
          /\ (~Truthy(probe0, "interval")
              \/ (probe0.interval.t = "string" /\ probe0.interval.v = "none"))
    THEN Thrown([probe |-> name, what |-> "sampler interval"])
  ELSE IF Has(probe1, "interval") /\ probe0.interval.t = "string"
          /\ isNaN(probe1.interval.v)
    THEN Thrown([probe |-> name, what |-> "interval"])
  ELSE IF Conflict(probe0)
    THEN Thrown([probe |-> name, what |-> "conflict"])
  ELSE IF isWS /\ (~TruthyStr(probe0, "index") \/ ~TruthyStr(probe0, "collection"))
    THEN Thrown([probe |-> name, what |-> "index or collection"])
  ELSE IF isWS /\ Truthy(probe0, "collects")
          /\ probe0.collects.t \notin {"string", "array"}
    THEN Thrown([probe |-> name, what |-> "collects format"])
  ELSE IF isWS /\ Truthy(probe0, "collects")
          /\ probe0.collects.t = "string" /\ probe0.collects.v # "*"
    THEN Thrown([probe |-> name, what |-> "collects value"])
  ELSE IF probe0.type = "sampler" /\ ~Truthy(probe2, "collects")
    THEN Thrown([probe |-> name, what |-> "sampler collects"])
  ELSE IF probe0.type = "sampler" /\ ~Truthy(probe0, "sampleSize")
    THEN Thrown([probe |-> name, what |-> "sampleSize"])
  ELSE IF probe0.type = "sampler" /\ probe0.sampleSize.t # "number"
    THEN Thrown([probe |-> name, what |-> "sampleSize type"])
  ELSE Ok(probe2)

\* ConfigureFrom leaving out the definitions that fail a check
RECURSIVE ConfigureFrom_skip(_, _, _)
ConfigureFrom_skip(cfg, i, output) ==
  IF i > Len(cfg) THEN [ok |-> TRUE, probes |-> output]
  ELSE LET r == ConfigureOne(cfg[i].name, cfg[i].def)
       IN IF r.ok THEN ConfigureFrom_skip(cfg, i + 1, Append(output, r.probe))
          ELSE ConfigureFrom_skip(cfg, i + 1, output)

\* the loop of _configureProbes: the first invalid definition throws
RECURSIVE ConfigureFrom(_, _, _)
ConfigureFrom(cfg, i, output) ==
  IF i > Len(cfg) THEN [ok |-> TRUE, probes |-> output]
  ELSE LET r == ConfigureOne(cfg[i].name, cfg[i].def)
       IN IF r.ok THEN ConfigureFrom(cfg, i + 1, Append(output, r.probe))
          ELSE r

_configureProbes(cfg) == ConfigureFrom(cfg, 1, << >>)

(***************************************************************************)
(* Compiled probes: a sequence of definitions in key order; probes[name]   *)
(* of the source is ProbeNamed(ps, name).                                  *)
(***************************************************************************)
Names(ps) == {ps[i].name : i \in 1..Len(ps)}
ProbeNamed(ps, name) == ps[CHOOSE i \in 1..Len(ps) : ps[i].name = name]

HasInterval(p) == Truthy(p, "interval")
IsVolatile(p) == Has(p, "volatile") /\ p.volatile

(***************************************************************************)
(* _prepareDsl: every watcher and sampler probe is registered with the     *)
(* matcher, which identifies a filter by what was registered.              *)
(***************************************************************************)
Register(index, collection, filter) == <<index, collection, filter>>

\* the calls of dsl.register, in order, each with the probe it is made for
\* and the id the matcher answers
Registration(p) ==
  [probe |-> p.name, index |-> p.index, collection |-> p.collection,
   filter |-> p.filter, id |-> Register(p.index, p.collection, p.filter)]

\* Registrations without the test of the type of the probe
Registrations_all(ps) ==
  [i \in 1..Len(ps) |->
     [probe |-> ps[i].name, index |-> ListOf(ps[i], "index"),
      collection |-> ListOf(ps[i], "collection"),
      filter |-> ListOf(ps[i], "filter"), id |-> << >>]]

Registrations(ps) ==
  LET registered == SelectSeq(ps, LAMBDA p : p.type \in {"watcher", "sampler"})
  IN [i \in 1..Len(registered) |-> Registration(registered[i])]

_prepareDsl(ps) ==
  [i \in 1..Len(ps) |->
     IF ps[i].type \in {"watcher", "sampler"}
     THEN With(ps[i], "filterId",
               Register(ps[i].index, ps[i].collection, ps[i].filter))
     ELSE ps[i]]

(***************************************************************************)
(* _buildEventsToProbesMapping                                             *)
(***************************************************************************)
EmptyMapping ==
  [monitor |-> << >>,
   counter |-> [increasers |-> << >>, decreasers |-> << >>],
   watcher |-> << >>,
   sampler |-> << >>]

\* PushUnique without the indexOf test of lines 649 and 666
PushUnique_dup(buckets, key, name) ==
  IF ~Has(buckets, key) THEN (key :> <<name>>) @@ buckets
  ELSE (key :> Append(buckets[key], name)) @@ buckets

\* push name in the bucket of key, created when missing, once only
PushUnique(buckets, key, name) ==
  IF ~Has(buckets, key) THEN With(buckets, key, <<name>>)
  ELSE IF IndexOf(buckets[key], name) THEN buckets
  ELSE With(buckets, key, Append(buckets[key], name))

\* push name in the bucket of key, created when missing
Push(buckets, key, name) ==
  IF ~Has(buckets, key) THEN With(buckets, key, <<name>>)
  ELSE With(buckets, key, Append(buckets[key], name))

RECURSIVE MapHooks(_, _, _, _)
MapHooks(buckets, hooks, i, name) ==
  IF i > Len(hooks) THEN buckets
  ELSE MapHooks(PushUnique(buckets, hooks[i], name), hooks, i + 1, name)

\* probes[name][type].filter(value => value)
FilterTruthy(hooks) == SelectSeq(hooks, LAMBDA h : h # "")

MapOne(mapping, p) ==
  CASE p.type = "monitor" ->
         IF ~Has(p, "hooks") THEN Thrown([probe |-> p.name, what |-> "hooks"])
         ELSE [ok |-> TRUE,
               mapping |-> [mapping EXCEPT
                 !.monitor = MapHooks(@, p.hooks, 1, p.name)]]
    [] p.type = "counter" ->
         IF ~Has(p, "increasers")
           THEN Thrown([probe |-> p.name, what |-> "increasers"])
         ELSE IF ~Has(p, "decreasers")
           THEN Thrown([probe |-> p.name, what |-> "decreasers"])
         ELSE [ok |-> TRUE,
               mapping |-> [mapping EXCEPT
                 !.counter.increasers =
                    MapHooks(@, FilterTruthy(p.increasers), 1, p.name),
                 !.counter.decreasers =
                    MapHooks(@, FilterTruthy(p.decreasers), 1, p.name)]]
    [] p.type = "watcher" ->
         [ok |-> TRUE,
          mapping |-> [mapping EXCEPT !.watcher = Push(@, p.filterId, p.name)]]
    [] p.type = "sampler" ->
         [ok |-> TRUE,
          mapping |-> [mapping EXCEPT !.sampler = Push(@, p.filterId, p.name)]]
    [] OTHER -> Thrown([probe |-> p.name, what |-> "unknown type"])

RECURSIVE MapFrom(_, _, _)
MapFrom(ps, i, mapping) ==
  IF i > Len(ps) THEN [ok |-> TRUE, mapping |-> mapping]
  ELSE LET r == MapOne(mapping, ps[i])
       IN IF r.ok THEN MapFrom(ps, i + 1, r.mapping) ELSE r

_buildEventsToProbesMapping(ps) == MapFrom(ps, 1, EmptyMapping)

(***************************************************************************)
(* _initializeMeasures: the zero accumulator of every probe                *)
(***************************************************************************)
\* ZeroMeasure without the count of a sampler
ZeroMeasure_content(p) ==
  CASE p.type = "monitor" -> [h \in Range(p.hooks) |-> 0]
    [] p.type = "counter" -> [count |-> 0]
    [] p.type = "watcher" ->
         IF Truthy(p, "collects") THEN [content |-> << >>] ELSE [count |-> 0]
    [] p.type = "sampler" -> [content |-> << >>]

ZeroMeasure(p) ==
  CASE p.type = "monitor" -> [h \in Range(p.hooks) |-> 0]
    [] p.type = "counter" -> [count |-> 0]
    [] p.type = "watcher" ->
         IF Truthy(p, "collects") THEN [content |-> << >>] ELSE [count |-> 0]
    [] p.type = "sampler" -> [content |-> << >>, count |-> 0]

_initializeMeasures(ps) == [n \in Names(ps) |-> ZeroMeasure(ProbeNamed(ps, n))]

(***************************************************************************)
(* State                                                                   *)
(***************************************************************************)
VARIABLES
  phase,        \* "constructed", "preparing", "ready" or "failed"
  config,       \* the probes configuration handed to init
  probes,       \* this.probes
  eventMapping, \* this.eventMapping ({} until init has resolved)
  measures,     \* this.measures
  dsl,          \* this.dsl: null (<< >>), or the matcher: its filter ids
                \* and the registrations it received
  timers,       \* number of repeating timers armed, per probe
  started,      \* startProbes has run
  inflight,     \* flushes whose promise chain has not settled
  now,          \* Date.now(): a clock that has moved on when a timer fires
  last,         \* the last operation, its input and its outcome
  lastCalls,    \* persistence calls issued by the last operation
  lastInits,    \* flushes initiated by the last operation
  lastNotifs,   \* notifications emitted by the last operation
  lastErrors,   \* measures reported to the logger by the last operation
  sent,         \* number of dispatches per route and event
  sinceReset,   \* per probe: what was delivered since its last reset
  stored,       \* per probe: what the successful flushes have delivered
  records,      \* per probe: the bag of the records a watcher has collected
  nDisp,        \* number of monitor and counter dispatches
  nDocs,        \* number of watcher and sampler dispatches
  nFires        \* number of timer callbacks

vars == <<phase, config, probes, eventMapping, measures, dsl, timers, started, inflight,
          now, last, lastCalls, lastInits, lastNotifs, lastErrors, sent,
          sinceReset, stored, records, nDisp, nDocs, nFires>>

NoDoc == << >>

Op(op, ev, probe, result) ==
  [op |-> op, ev |-> ev, probe |-> probe, result |-> result,
   doc |-> NoDoc, ids |-> {}, body |-> NoDoc, flush |-> NoDoc]

\* the settling of the flush f
Settled(op, f) ==
  [op |-> op, ev |-> "", probe |-> f.probe, result |-> "",
   doc |-> NoDoc, ids |-> {}, body |-> NoDoc, flush |-> f]

\* a run of startProbes: whether the index and the list of collections
\* were obtained, and the probes whose collection could not be created
StartOp(indexOk, failing) ==
  With(Op("startProbes", "", "", IF indexOk THEN "ok" ELSE "reject"),
       "failing", failing)

Init ==
  /\ phase = "constructed"
  /\ config = << >>
  /\ probes = << >>
  /\ eventMapping = << >>
  /\ measures = << >>
  /\ dsl = << >>
  /\ timers = << >>
  /\ started = FALSE
  /\ inflight = << >>
  /\ now = 1
  /\ last = Op("new", "", "", "")
  /\ lastCalls = << >>
  /\ lastInits = << >>
  /\ lastNotifs = << >>
  /\ lastErrors = << >>
  /\ sent = [monitor |-> [e \in Events |-> 0], counter |-> [e \in Events |-> 0]]
  /\ sinceReset = << >>
  /\ stored = << >>
  /\ records = << >>
  /\ nDisp = 0
  /\ nDocs = 0
  /\ nFires = 0

(***************************************************************************)
(* The flush chain: _afterMeasure, _saveMeasure, _notifyMeasure,           *)
(* _resetMeasure, _showError.                                              *)
(*                                                                         *)
(* A dispatch or a timer callback runs the executor of _afterMeasure       *)
(* synchronously (the persistence call is issued, or skipped); the then /  *)
(* catch callbacks run later, in FlushResolve and FlushReject.  The        *)
(* synchronous part works on a record st of the fields it changes.         *)
(***************************************************************************)
\* A flush in flight: its probe, whether a persistence call was issued and,
\* for the record, the accumulator as _afterMeasure received it.
Flush(st, name, called) ==
  [probe |-> name, called |-> called, before |-> st.measures[name]]

\* JSON.parse(JSON.stringify(o)): the leaves that are undefined vanish
JsonObject(o) == [k \in {x \in DOMAIN o : o[x] # undefined} |-> o[k]]

\* JSON.parse(JSON.stringify(measure))
JsonMeasure(m) ==
  IF Has(m, "content")
  THEN With(m, "content", [i \in 1..Len(m.content) |-> JsonObject(m.content[i])])
  ELSE m

\* _saveMeasure without the test of the length of content
_saveMeasure_empty(st, p) ==
  LET m == st.measures[p.name]
      timestamp == st.now
  IN
  IF Has(m, "content")
  THEN [st EXCEPT
          !.calls = Append(@,
             [probe |-> p.name, action |-> "import",
              body |-> [i \in 1..Len(m.content) |->
                          [timestamp |-> timestamp, content |-> m.content[i]]]]),
          !.inflight = Append(@, Flush(st, p.name, TRUE))]
  ELSE LET request == With(m, "timestamp", timestamp) IN
       [st EXCEPT
          !.measures[p.name] = request,
          !.calls = Append(@, [probe |-> p.name, action |-> "create",
                               body |-> JsonMeasure(request)]),
          !.inflight = Append(@, Flush(st, p.name, TRUE))]

\* _saveMeasure persisting the last entry of content only
_saveMeasure_last(st, p) ==
  LET m == st.measures[p.name]
      timestamp == st.now
  IN
  IF Has(m, "content")
  THEN IF Len(m.content) = 0
       THEN [st EXCEPT !.inflight = Append(@, Flush(st, p.name, FALSE))]
       ELSE [st EXCEPT
               !.calls = Append(@,
                  [probe |-> p.name, action |-> "import",
                   body |-> <<[timestamp |-> timestamp,
                               content |-> m.content[Len(m.content)]]>>]),
               !.inflight = Append(@, Flush(st, p.name, TRUE))]
  ELSE LET request == With(m, "timestamp", timestamp) IN
       [st EXCEPT
          !.measures[p.name] = request,
          !.calls = Append(@, [probe |-> p.name, action |-> "create",
                               body |-> JsonMeasure(request)]),
          !.inflight = Append(@, Flush(st, p.name, TRUE))]

_saveMeasure(st, p) ==
  LET m == st.measures[p.name]
      timestamp == st.now
  IN
  IF Has(m, "content")
  THEN IF Len(m.content) = 0
       THEN [st EXCEPT !.inflight = Append(@, Flush(st, p.name, FALSE))]
       ELSE [st EXCEPT
               !.calls = Append(@,
                  [probe |-> p.name, action |-> "import",
                   body |-> [i \in 1..Len(m.content) |->
                               [timestamp |-> timestamp, content |-> m.content[i]]]]),
               !.inflight = Append(@, Flush(st, p.name, TRUE))]
  ELSE LET request == With(m, "timestamp", timestamp) IN
       [st EXCEPT
          !.measures[p.name] = request,
          !.calls = Append(@, [probe |-> p.name, action |-> "create",
                               body |-> JsonMeasure(request)]),
          !.inflight = Append(@, Flush(st, p.name, TRUE))]

\* _afterMeasure without the test of probe.volatile
_afterMeasure_save(st, p) ==
  _saveMeasure([st EXCEPT !.inits = Append(@, p.name)], p)

_afterMeasure(st, p) ==
  LET st1 == [st EXCEPT !.inits = Append(@, p.name)] IN
  IF ~IsVolatile(p) THEN _saveMeasure(st1, p)
  ELSE [st1 EXCEPT !.inflight = Append(@, Flush(st1, p.name, FALSE))]

_notifyMeasure(p, m) == [probeName |-> p.name, data |-> JsonMeasure(m)]

\* _resetMeasure taking a counter for a watcher
_resetMeasure_counter(p, m) ==
  IF p.type = "monitor" THEN [k \in DOMAIN m |-> 0]
  ELSE [k \in DOMAIN m |->
          IF k = "count" THEN 0 ELSE IF k = "content" THEN << >> ELSE m[k]]

\* _resetMeasure without the monitor branch
_resetMeasure_keep(p, m) ==
  IF p.type \in {"watcher", "sampler"}
  THEN [k \in DOMAIN m |->
          IF k = "count" THEN 0 ELSE IF k = "content" THEN << >> ELSE m[k]]
  ELSE m

_resetMeasure(p, m) ==
  IF p.type = "monitor" THEN [k \in DOMAIN m |-> 0]
  ELSE IF p.type \in {"watcher", "sampler"}
  THEN [k \in DOMAIN m |->
          IF k = "count" THEN 0 ELSE IF k = "content" THEN << >> ELSE m[k]]
  ELSE m

_showError(p, m) == [probe |-> p.name, measure |-> m]

\* the part of the state a synchronous handler works on
Start(body) ==
  [measures |-> measures, inflight |-> inflight, calls |-> << >>,
   inits |-> << >>, body |-> body, now |-> now]

CountOf(s, x) == Cardinality({i \in 1..Len(s) : s[i] = x})
CallsFor(calls, name) == Cardinality({i \in 1..Len(calls) : calls[i].probe = name})

\* the bag b with the elements of the sequence s added
AddAll(b, s) ==
  [x \in DOMAIN b \cup Range(s) |->
     (IF x \in DOMAIN b THEN b[x] ELSE 0) + CountOf(s, x)]

\* a synchronous handler that ended in st takes effect
Commit(st) ==
  /\ Len(st.inflight) <= MaxInflight
  /\ measures' = st.measures
  /\ inflight' = st.inflight
  /\ lastCalls' = st.calls
  /\ lastInits' = st.inits
  /\ lastNotifs' = << >>
  /\ lastErrors' = << >>
  /\ now' = st.now

\* a handler that threw before it changed anything
NoEffect ==
  /\ lastCalls' = << >>
  /\ lastInits' = << >>
  /\ lastNotifs' = << >>
  /\ lastErrors' = << >>
  /\ UNCHANGED <<measures, inflight, now>>

(***************************************************************************)
(* init                                                                    *)
(***************************************************************************)
ZeroDelivered(p) ==
  CASE p.type = "monitor" -> [h \in Range(ListOf(p, "hooks")) |-> 0]
    [] OTHER -> 0

\* nothing delivered yet by the flushes of p
ZeroStored(p) ==
  CASE p.type = "monitor" -> [h \in Range(ListOf(p, "hooks")) |-> 0]
    [] OTHER -> << >>

\* init up to the call of _prepareDsl (lines 95-120)
init(c) ==
  /\ phase = "constructed"
  /\ config' = Configs[c]
  /\ LET r == _configureProbes(Configs[c]) IN
     IF ~r.ok
     THEN /\ phase' = "failed"
          /\ last' = Op("init", "", r.error.probe, "throw")
          /\ UNCHANGED <<probes, timers, sinceReset, stored, records>>
     ELSE /\ probes' = r.probes
          /\ phase' = IF Len(r.probes) = 0 THEN "ready" ELSE "preparing"
          /\ last' = Op("init", "", "", "ok")
          /\ timers' = [n \in Names(r.probes) |-> 0]
          /\ sinceReset' =
               [n \in Names(r.probes) |-> ZeroDelivered(ProbeNamed(r.probes, n))]
          /\ stored' =
               [n \in Names(r.probes) |-> ZeroStored(ProbeNamed(r.probes, n))]
          /\ records' = [n \in Names(r.probes) |-> << >>]
  /\ lastCalls' = << >>
  /\ lastInits' = << >>
  /\ lastNotifs' = << >>
  /\ lastErrors' = << >>
  /\ UNCHANGED <<eventMapping, measures, dsl, started, inflight, now, sent,
                 nDisp, nDocs, nFires>>

\* the callback of _prepareDsl (lines 121-126)
initResolved ==
  /\ phase = "preparing"
  /\ LET ps == _prepareDsl(probes)
         r == _buildEventsToProbesMapping(ps)
     IN
     /\ probes' = ps
     /\ dsl' = [ids |-> {ps[i].filterId :
                             i \in {j \in 1..Len(ps) : Has(ps[j], "filterId")}},
                registered |-> Registrations(probes)]
     /\ IF r.ok
        THEN /\ eventMapping' = r.mapping
             /\ measures' = _initializeMeasures(ps)
             /\ phase' = "ready"
             /\ last' = Op("initResolved", "", "", "ok")
        ELSE /\ phase' = "failed"
             /\ last' = Op("initResolved", "", r.error.probe, "reject")
             /\ UNCHANGED <<eventMapping, measures>>
  /\ lastCalls' = << >>
  /\ lastInits' = << >>
  /\ lastNotifs' = << >>
  /\ lastErrors' = << >>
  /\ UNCHANGED <<records, stored, config, timers, started, inflight, now,
                 sent, sinceReset, nDisp, nDocs, nFires>>

(***************************************************************************)
(* startProbes: a timer is armed for every probe with an interval whose    *)
(* collection was provisioned.  indexOk: the index and collection list     *)
(* requests succeeded; failing: the probes whose collection creation      *)
(* failed.                                                                 *)
(***************************************************************************)
\* Arm without the test of the outcome of the collection creation
Arm_all(indexOk, failing) ==
  /\ timers' = [n \in DOMAIN timers |->
                  IF indexOk /\ HasInterval(ProbeNamed(probes, n))
                  THEN timers[n] + 1 ELSE timers[n]]
  /\ last' = StartOp(indexOk, failing)
  /\ NoEffect
  /\ UNCHANGED <<records, stored, phase, config, probes, eventMapping, dsl,
                 sent, sinceReset, nDisp, nDocs, nFires>>

\* the body of startProbes
Arm(indexOk, failing) ==
  /\ timers' = [n \in DOMAIN timers |->
                  IF indexOk /\ n \notin failing
                     /\ HasInterval(ProbeNamed(probes, n))
                  THEN timers[n] + 1 ELSE timers[n]]
  /\ last' = StartOp(indexOk, failing)
  /\ NoEffect
  /\ UNCHANGED <<records, stored, phase, config, probes, eventMapping, dsl,
                 sent, sinceReset, nDisp, nDocs, nFires>>

\* the core:kuzzleStart hook, which Kuzzle triggers once
startProbes(indexOk, failing) ==
  /\ phase = "ready"
  /\ ~started
  /\ indexOk \/ failing = {}
  /\ started' = TRUE
  /\ Arm(indexOk, failing)

\* startProbes invoked once more
startProbesAgain(indexOk, failing) ==
  /\ phase = "ready"
  /\ started
  /\ \A n \in DOMAIN timers : timers[n] < MaxTimers
  /\ indexOk \/ failing = {}
  /\ UNCHANGED started
  /\ Arm(indexOk, failing)

(***************************************************************************)
(* The remote listener posts measures to the routes of the probe types of  *)
(* the configuration (to any route when no probe is configured).           *)
(***************************************************************************)
Posts(route) ==
  \/ Len(probes) = 0
  \/ \E i \in 1..Len(probes) : probes[i].type = route

(***************************************************************************)
(* monitor                                                                 *)
(***************************************************************************)
\* MonitorLoop with the test of the interval inverted
RECURSIVE MonitorLoop_inverted(_, _, _, _)
MonitorLoop_inverted(st, bucket, i, event) ==
  IF i > Len(bucket) THEN st
  ELSE LET p   == ProbeNamed(probes, bucket[i])
           st1 == [st EXCEPT !.measures[p.name][event] = @ + 1]
           st2 == IF HasInterval(p) THEN _afterMeasure(st1, p) ELSE st1
       IN MonitorLoop_inverted(st2, bucket, i + 1, event)

RECURSIVE MonitorLoop(_, _, _, _)
MonitorLoop(st, bucket, i, event) ==
  IF i > Len(bucket) THEN st
  ELSE LET p   == ProbeNamed(probes, bucket[i])
           st1 == [st EXCEPT !.measures[p.name][event] = @ + 1]
           st2 == IF ~HasInterval(p) THEN _afterMeasure(st1, p) ELSE st1
       IN MonitorLoop(st2, bucket, i + 1, event)

DeliveredMonitor(event) ==
  [n \in DOMAIN sinceReset |->
     LET p == ProbeNamed(probes, n) IN
     IF p.type = "monitor" /\ event \in Range(p.hooks)
     THEN [sinceReset[n] EXCEPT ![event] = @ + 1]
     ELSE sinceReset[n]]

monitor(event) ==
  /\ phase = "ready"
  /\ Posts("monitor")
  /\ nDisp + nDocs < MaxDispatch
  /\ IF ~Has(eventMapping, "monitor") \/ ~Has(eventMapping.monitor, event)
     THEN /\ last' = Op("monitor", event, "", "TypeError")
          /\ NoEffect
     ELSE /\ Commit(MonitorLoop(Start(NoDoc), eventMapping.monitor[event], 1, event))
          /\ last' = Op("monitor", event, "", "acknowledged")
  /\ sent' = [sent EXCEPT !.monitor[event] = @ + 1]
  /\ sinceReset' = DeliveredMonitor(event)
  /\ nDisp' = nDisp + 1
  /\ UNCHANGED <<records, stored, phase, config, probes, eventMapping, dsl,
                 timers, started, nDocs, nFires>>

(***************************************************************************)
(* counter                                                                 *)
(***************************************************************************)
\* CounterLoop ending with the first flush it initiates
RECURSIVE CounterLoop_return(_, _, _, _)
CounterLoop_return(st, bucket, i, delta) ==
  IF i > Len(bucket) THEN st
  ELSE LET p   == ProbeNamed(probes, bucket[i])
           st1 == [st EXCEPT !.measures[p.name].count = @ + delta]
       IN IF ~HasInterval(p) THEN _afterMeasure(st1, p)
          ELSE CounterLoop_return(st1, bucket, i + 1, delta)

RECURSIVE CounterLoop(_, _, _, _)
CounterLoop(st, bucket, i, delta) ==
  IF i > Len(bucket) THEN st
  ELSE LET p   == ProbeNamed(probes, bucket[i])
           st1 == [st EXCEPT !.measures[p.name].count = @ + delta]
           st2 == IF ~HasInterval(p) THEN _afterMeasure(st1, p) ELSE st1
       IN CounterLoop(st2, bucket, i + 1, delta)

CounterRun(event) ==
  LET inc == eventMapping.counter.increasers
      dec == eventMapping.counter.decreasers
      st1 == IF Has(inc, event)
             THEN CounterLoop(Start(NoDoc), inc[event], 1, 1)
             ELSE Start(NoDoc)
  IN IF Has(dec, event) THEN CounterLoop(st1, dec[event], 1, -1) ELSE st1

DeliveredCounter(event) ==
  [n \in DOMAIN sinceReset |->
     LET p == ProbeNamed(probes, n) IN
     IF p.type # "counter" THEN sinceReset[n]
     ELSE sinceReset[n]
          + (IF event \in Range(p.increasers) THEN 1 ELSE 0)
          - (IF event \in Range(p.decreasers) THEN 1 ELSE 0)]

counter(event) ==
  /\ phase = "ready"
  /\ Posts("counter")
  /\ nDisp + nDocs < MaxDispatch
  /\ IF ~Has(eventMapping, "counter")
     THEN /\ last' = Op("counter", event, "", "TypeError")
          /\ NoEffect
     ELSE /\ Commit(CounterRun(event))
          /\ last' = Op("counter", event, "", "acknowledged")
  /\ sent' = [sent EXCEPT !.counter[event] = @ + 1]
  /\ sinceReset' = DeliveredCounter(event)
  /\ nDisp' = nDisp + 1
  /\ UNCHANGED <<records, stored, phase, config, probes, eventMapping, dsl,
                 timers, started, nDocs, nFires>>

(***************************************************************************)
(* Documents handed to watcher and sampler, and the matcher's answer       *)
(***************************************************************************)
\* A JSON object is the function from the paths of its leaves (sequences
\* of keys) to their values: {a: {x: 1, y: 2}, b: 2} and {b: 5}.
Docs == <<
  [index |-> "i", collection |-> "c", _id |-> 7,
   body |-> (<<"a", "x">> :> 1) @@ (<<"a", "y">> :> 2) @@ (<<"b">> :> 2)],
  [index |-> "i", collection |-> "c", body |-> (<<"b">> :> 5)] >>

\* lodash: the path of keys of a dotted field name
toPath(field) ==
  CASE field = "a"   -> <<"a">>
    [] field = "a.x" -> <<"a", "x">>
    [] field = "a.y" -> <<"a", "y">>
    [] field = "b"   -> <<"b">>
    [] field = "b.z" -> <<"b", "z">>
    [] OTHER         -> <<field>>

IsPrefix(p, q) == Len(p) <= Len(q) /\ SubSeq(q, 1, Len(p)) = p

\* _.get(object, path): what is found at the path, as the function from
\* the paths below it to the leaves (from << >> for a leaf); nothing
\* (undefined) is the empty function
Get(object, path) ==
  LET below == {q \in DOMAIN object :
                  IsPrefix(path, q) /\ object[q] # undefined}
  IN [s \in {SubSeq(q, Len(path) + 1, Len(q)) : q \in below} |->
        object[path \o s]]

\* _.set(object, path, value): the objects on the path are created, what
\* was at the path, or was no object on the way to it, is replaced
Set(object, path, value) ==
  LET kept == {q \in DOMAIN object : ~IsPrefix(path, q) /\ ~IsPrefix(q, path)}
      new  == IF DOMAIN value = {} THEN {path}
              ELSE {path \o s : s \in DOMAIN value}
  IN [q \in kept \cup new |->
        IF q \in kept THEN object[q]
        ELSE IF DOMAIN value = {} THEN undefined
        ELSE value[SubSeq(q, Len(path) + 1, Len(q))]]

\* the sequences without repetition over S
Orderings(S) ==
  UNION {{s \in [1..k -> S] : \A i, j \in 1..k : s[i] = s[j] => i = j} :
           k \in 0..Cardinality(S)}

\* dsl.test: some of the filters registered on the document's collection
Test(doc) ==
  Orderings({id \in dsl.ids : id[1] = doc.index /\ id[2] = doc.collection})

(***************************************************************************)
(* _collectData: the collected object, and the document body afterwards    *)
(* (the wildcard hands out the body itself).                               *)
(***************************************************************************)
RECURSIVE SetFields(_, _, _, _)
SetFields(collected, content, fields, i) ==
  IF i > Len(fields) THEN collected
  ELSE SetFields(Set(collected, toPath(fields[i]),
                     Get(content, toPath(fields[i]))),
                 content, fields, i + 1)

\* _collectData copying the whole body for a list of fields
_collectData_whole(doc, content, collect) ==
  LET withId(o) == IF Has(doc, "_id") /\ doc._id # 0
                   THEN With(o, <<"_id">>, doc._id) ELSE o
  IN
  IF collect.t = "string"
  THEN [collected |-> withId(content), content |-> withId(content)]
  ELSE [collected |-> withId(content), content |-> content]

_collectData(doc, content, collect) ==
  LET withId(o) == IF Has(doc, "_id") /\ doc._id # 0
                   THEN With(o, <<"_id">>, doc._id) ELSE o
  IN
  IF collect.t = "string"
  THEN [collected |-> withId(content), content |-> withId(content)]
  ELSE [collected |-> withId(SetFields(<< >>, content, collect.v, 1)),
        content |-> content]

\* the probes visited by the two nested loops of watcher and sampler, in
\* order; a filter id without a bucket ends the iteration with a TypeError
NoBucket == "#TypeError"

RECURSIVE Targets(_, _, _)
Targets(buckets, ids, k) ==
  IF k > Len(ids) THEN << >>
  ELSE IF ~Has(buckets, ids[k]) THEN <<NoBucket>>
  ELSE buckets[ids[k]] \o Targets(buckets, ids, k + 1)

DeliveredDoc(type, ids) ==
  [n \in DOMAIN sinceReset |->
     LET p == ProbeNamed(probes, n) IN
     IF p.type = type /\ p.filterId \in Range(ids)
     THEN sinceReset[n] + 1 ELSE sinceReset[n]]

DocOp(op, d, ids, result, body) ==
  [op |-> op, ev |-> "", probe |-> "", result |-> result,
   doc |-> Docs[d], ids |-> Range(ids), body |-> body, flush |-> NoDoc]

(***************************************************************************)
(* watcher                                                                 *)
(***************************************************************************)
RECURSIVE WatcherLoop(_, _, _, _)
WatcherLoop(st, targets, i, doc) ==
  IF i > Len(targets) THEN [st |-> st, result |-> "acknowledged"]
  ELSE IF targets[i] = NoBucket THEN [st |-> st, result |-> "TypeError"]
  ELSE LET p   == ProbeNamed(probes, targets[i])
           c   == _collectData(doc, st.body, p.collects)
           st1 == IF Truthy(p, "collects")
                  THEN [st EXCEPT !.measures[p.name].content = Append(@, c.collected),
                                  !.body = c.content]
                  ELSE [st EXCEPT !.measures[p.name].count = @ + 1]
           st2 == IF ~HasInterval(p) THEN _afterMeasure(st1, p) ELSE st1
       IN WatcherLoop(st2, targets, i + 1, doc)

\* the records collected so far, after a dispatch that took the
\* accumulators to after: the record pushed on a content is one more
CollectedAfter(after) ==
  [n \in DOMAIN records |->
     IF /\ ProbeNamed(probes, n).type = "watcher"
        /\ Has(after[n], "content")
        /\ Len(after[n].content) > Len(measures[n].content)
     THEN AddAll(records[n], <<after[n].content[Len(after[n].content)]>>)
     ELSE records[n]]

watcher(d, ids) ==
  /\ phase = "ready"
  /\ Posts("watcher")
  /\ nDocs < MaxDocs
  /\ nDisp + nDocs < MaxDispatch
  /\ IF ~Has(dsl, "ids")
     THEN /\ ids = << >>
          /\ last' = DocOp("watcher", d, ids, "TypeError", Docs[d].body)
          /\ NoEffect
          /\ UNCHANGED <<sinceReset, records>>
     ELSE /\ ids \in Test(Docs[d])
          /\ LET r == WatcherLoop(Start(Docs[d].body),
                                  Targets(eventMapping.watcher, ids, 1), 1, Docs[d])
             IN /\ Commit(r.st)
                /\ last' = DocOp("watcher", d, ids, r.result, r.st.body)
                /\ records' = CollectedAfter(r.st.measures)
          /\ sinceReset' = DeliveredDoc("watcher", ids)
  /\ nDocs' = nDocs + 1
  /\ UNCHANGED <<stored, phase, config, probes, eventMapping, dsl, timers, started,
                 sent, nDisp, nFires>>

(***************************************************************************)
(* sampler: the outcomes of the loops, one per draw of the random engine   *)
(***************************************************************************)
\* ReservoirStep replacing up to and including position sampleSize
ReservoirStep_including(m, sampleSize, collected, positionCandidate) ==
  LET m1 == [m EXCEPT !.count = @ + 1] IN
  IF Len(m1.content) < sampleSize
  THEN [m1 EXCEPT !.content = Append(@, collected)]
  ELSE IF positionCandidate <= sampleSize /\ positionCandidate < m1.count
  THEN [m1 EXCEPT !.content =
          [k \in 1..Len(@) \cup {positionCandidate + 1} |->
             IF k = positionCandidate + 1 THEN collected ELSE @[k]]]
  ELSE m1

\* lines 431-444: the reservoir step on the accumulator m, for the position
\* the random engine draws when the reservoir is full
ReservoirStep(m, sampleSize, collected, positionCandidate) ==
  LET m1 == [m EXCEPT !.count = @ + 1] IN
  IF Len(m1.content) < sampleSize
  THEN [m1 EXCEPT !.content = Append(@, collected)]
  ELSE IF positionCandidate < sampleSize
  THEN [m1 EXCEPT !.content[positionCandidate + 1] = collected]
  ELSE m1

\* Positions drawn before count is incremented
Positions_before(m) == 0..(m.count - 1)

\* line 440: integer(0, count - 1), count being incremented already
Positions(m) == 0..m.count

RECURSIVE SamplerLoop(_, _, _, _)
SamplerLoop(st, targets, i, doc) ==
  IF i > Len(targets) THEN {[st |-> st, result |-> "acknowledged"]}
  ELSE IF targets[i] = NoBucket THEN {[st |-> st, result |-> "TypeError"]}
  ELSE LET p   == ProbeNamed(probes, targets[i])
           c   == _collectData(doc, st.body, p.collects)
           m   == st.measures[p.name]
           step(positionCandidate) ==
             [st EXCEPT !.measures[p.name] =
                          ReservoirStep(m, p.sampleSize.v, c.collected,
                                        positionCandidate),
                        !.body = c.content]
       IN IF Len(m.content) < p.sampleSize.v
          THEN {[st |-> step(0), result |-> "pushed"]}
          ELSE UNION {SamplerLoop(step(positionCandidate), targets, i + 1, doc) :
                        positionCandidate \in Positions(m)}

sampler(d, ids) ==
  /\ phase = "ready"
  /\ Posts("sampler")
  /\ nDocs < MaxDocs
  /\ nDisp + nDocs < MaxDispatch
  /\ IF ~Has(dsl, "ids")
     THEN /\ ids = << >>
          /\ last' = DocOp("sampler", d, ids, "TypeError", Docs[d].body)
          /\ NoEffect
          /\ UNCHANGED sinceReset
     ELSE /\ ids \in Test(Docs[d])
          /\ \E r \in SamplerLoop(Start(Docs[d].body),
                                  Targets(eventMapping.sampler, ids, 1), 1, Docs[d]) :
               /\ Commit(r.st)
               /\ last' = DocOp("sampler", d, ids, r.result, r.st.body)
          /\ sinceReset' = DeliveredDoc("sampler", ids)
  /\ nDocs' = nDocs + 1
  /\ UNCHANGED <<records, stored, phase, config, probes, eventMapping, dsl,
                 timers, started, sent, nDisp, nFires>>

(***************************************************************************)
(* The timer callback armed by startProbes                                 *)
(***************************************************************************)
timerFires(name) ==
  /\ phase = "ready"
  /\ name \in DOMAIN timers
  /\ timers[name] > 0
  /\ nFires < MaxFires
  /\ LET st == _afterMeasure([Start(NoDoc) EXCEPT !.now = now + 1],
                              ProbeNamed(probes, name))
     IN
     /\ Len(st.inflight) <= MaxInflight
     /\ measures' = st.measures
     /\ inflight' = st.inflight
     /\ lastCalls' = st.calls
     /\ lastInits' = st.inits
     /\ now' = st.now
  /\ lastNotifs' = << >>
  /\ lastErrors' = << >>
  /\ last' = Op("timer", "", name, "")
  /\ nFires' = nFires + 1
  /\ UNCHANGED <<records, stored, phase, config, probes, eventMapping, dsl,
                 timers, started, sent, sinceReset, nDisp, nDocs>>

(***************************************************************************)
(* The callbacks of the promise of _afterMeasure (lines 932-936)           *)
(***************************************************************************)
ResetDelivered(n) ==
  LET p == ProbeNamed(probes, n) IN
  IF p.type = "counter" THEN sinceReset[n] ELSE ZeroDelivered(p)

\* what the flushes of p have delivered, after the flush f has succeeded
\* with the accumulator at m: per hook of a monitor, the values persisted
\* (notified, for a volatile probe); for a watcher that collects, the
\* records of the bulk calls
StoredAfter(p, s, f, m) ==
  CASE p.type = "monitor" ->
         [h \in DOMAIN s |-> s[h] + (IF IsVolatile(p) THEN m[h] ELSE f.before[h])]
    [] p.type = "watcher" /\ f.called /\ Has(f.before, "content") ->
         AddAll(s, f.before.content)
    [] OTHER -> s

\* flushResolved resetting the accumulator before it is notified
flushResolved_reset(i) ==
  /\ i \in 1..Len(inflight)
  /\ LET n == inflight[i].probe
         p == ProbeNamed(probes, n)
     IN
     /\ lastNotifs' = <<_notifyMeasure(p, _resetMeasure(p, measures[n]))>>
     /\ measures' = [measures EXCEPT ![n] = _resetMeasure(p, @)]
     /\ sinceReset' = [sinceReset EXCEPT ![n] = ResetDelivered(n)]
     /\ stored' = [stored EXCEPT ![n] = StoredAfter(p, @, inflight[i], measures[n])]
     /\ last' = Settled("resolved", inflight[i])
  /\ inflight' = RemoveAt(inflight, i)
  /\ lastCalls' = << >>
  /\ lastInits' = << >>
  /\ lastErrors' = << >>
  /\ UNCHANGED <<records, phase, config, probes, eventMapping, dsl, timers,
                 started, now, sent, nDisp, nDocs, nFires>>

\* the persistence call resolved, or there was none
flushResolved(i) ==
  /\ i \in 1..Len(inflight)
  /\ LET n == inflight[i].probe
         p == ProbeNamed(probes, n)
     IN
     /\ lastNotifs' = <<_notifyMeasure(p, measures[n])>>
     /\ measures' = [measures EXCEPT ![n] = _resetMeasure(p, @)]
     /\ sinceReset' = [sinceReset EXCEPT ![n] = ResetDelivered(n)]
     /\ stored' = [stored EXCEPT ![n] = StoredAfter(p, @, inflight[i], measures[n])]
     /\ last' = Settled("resolved", inflight[i])
  /\ inflight' = RemoveAt(inflight, i)
  /\ lastCalls' = << >>
  /\ lastInits' = << >>
  /\ lastErrors' = << >>
  /\ UNCHANGED <<records, phase, config, probes, eventMapping, dsl, timers,
                 started, now, sent, nDisp, nDocs, nFires>>

\* flushRejected running the then callback after the catch
flushRejected_then(i) ==
  /\ i \in 1..Len(inflight)
  /\ inflight[i].called
  /\ LET n == inflight[i].probe
         p == ProbeNamed(probes, n)
     IN
     /\ lastErrors' = <<_showError(p, measures[n])>>
     /\ lastNotifs' = <<_notifyMeasure(p, measures[n])>>
     /\ measures' = [measures EXCEPT ![n] = _resetMeasure(p, @)]
     /\ last' = Settled("rejected", inflight[i])
  /\ inflight' = RemoveAt(inflight, i)
  /\ lastCalls' = << >>
  /\ lastInits' = << >>
  /\ UNCHANGED <<records, stored, phase, config, probes, eventMapping, dsl,
                 timers, started, now, sent, sinceReset, nDisp, nDocs,
                 nFires>>

\* the persistence call was rejected, or threw
flushRejected(i) ==
  /\ i \in 1..Len(inflight)
  /\ inflight[i].called
  /\ LET n == inflight[i].probe
         p == ProbeNamed(probes, n)
     IN
     /\ lastErrors' = <<_showError(p, measures[n])>>
     /\ last' = Settled("rejected", inflight[i])
  /\ inflight' = RemoveAt(inflight, i)
  /\ lastCalls' = << >>
  /\ lastInits' = << >>
  /\ lastNotifs' = << >>
  /\ UNCHANGED <<records, stored, phase, config, probes, eventMapping,
                 measures, dsl, timers, started, now, sent, sinceReset,
                 nDisp, nDocs, nFires>>

Next ==
  \/ \E c \in 1..Len(Configs) : init(c)
  \/ initResolved
  \/ \E indexOk \in BOOLEAN :
       \E failing \in SUBSET {n \in DOMAIN timers : HasInterval(ProbeNamed(probes, n))} :
         startProbes(indexOk, failing)
  \/ \E e \in Events : monitor(e)
  \/ \E e \in Events : counter(e)
  \/ \E d \in 1..Len(Docs) : \E ids \in IF Has(dsl, "ids") THEN Test(Docs[d]) ELSE {<< >>} :
       watcher(d, ids)
  \/ \E d \in 1..Len(Docs) : \E ids \in IF Has(dsl, "ids") THEN Test(Docs[d]) ELSE {<< >>} :
       sampler(d, ids)
  \/ \E n \in DOMAIN timers : timerFires(n)
  \/ \E i \in 1..MaxInflight : flushResolved(i)
  \/ \E i \in 1..MaxInflight : flushRejected(i)

Spec == Init /\ [][Next]_vars

\* The plugin with startProbes invoked any number of times
NextAgain ==
  \/ Next
  \/ \E indexOk \in BOOLEAN :
       \E failing \in SUBSET {n \in DOMAIN timers : HasInterval(ProbeNamed(probes, n))} :
         startProbesAgain(indexOk, failing)

SpecAgain == Init /\ [][NextAgain]_vars

(***************************************************************************)
(* The plugin left running: the timers go on firing after the callbacks    *)
(* counted by nFires (the clock is read as it stood at the last of them),  *)
(* every armed timer fires again and again, and every persistence call     *)
(* settles.                                                                *)
(***************************************************************************)
timerFiresLate(name) ==
  /\ phase = "ready"
  /\ name \in DOMAIN timers
  /\ timers[name] > 0
  /\ nFires = MaxFires
  /\ Commit(_afterMeasure(Start(NoDoc), ProbeNamed(probes, name)))
  /\ last' = Op("timer", "", name, "")
  /\ UNCHANGED <<records, stored, phase, config, probes, eventMapping, dsl,
                 timers, started, sent, sinceReset, nDisp, nDocs, nFires>>

\* the positions of the probes in the configurations
Slots == UNION {DOMAIN Configs[c] : c \in 1..Len(Configs)}

NextFair ==
  \/ Next
  \/ \E n \in DOMAIN timers : timerFiresLate(n)

\* a callback of the timer of the i-th probe
timerOf(i) ==
  /\ i \in DOMAIN probes
  /\ timerFires(probes[i].name) \/ timerFiresLate(probes[i].name)

\* a persistence call settles
settles == \E i \in 1..MaxInflight : flushResolved(i) \/ flushRejected(i)

Fairness ==
  /\ \A i \in Slots : SF_vars(timerOf(i))
  /\ WF_vars(settles)

SpecFair == Init /\ [][NextFair]_vars /\ Fairness

(***************************************************************************)
(* Properties                                                              *)
(***************************************************************************)
P(n) == ProbeNamed(probes, n)
Min(a, b) == IF a < b THEN a ELSE b
Bit(b) == IF b THEN 1 ELSE 0

RECURSIVE SumOver(_, _)
SumOver(f, S) ==
  IF S = {} THEN 0
  ELSE LET x == CHOOSE y \in S : TRUE IN f[x] + SumOver(f, S \ {x})

\* counter dispatches of the increasers of p minus those of its decreasers
Net(p) ==
  SumOver(sent.counter, Events \cap Range(p.increasers))
  - SumOver(sent.counter, Events \cap Range(p.decreasers))

\* the accumulator fields that carry measurements
Fields(m) == DOMAIN m \ {"timestamp"}

\* C1: the count of a counter probe is the number of dispatched events that
\* are among its increasers minus the number that are among its decreasers,
\* whatever flushes (successful, failed, volatile) have happened.
C1_CounterSign ==
  \A n \in DOMAIN measures :
    P(n).type = "counter" => measures[n].count = Net(P(n))

C1_Witness ==
  /\ last.op = "resolved"
  /\ P(last.probe).type = "counter"
  /\ last.flush.called
  /\ measures[last.probe].count # 0

\* the measurements of the accumulator m are those of the accumulator b
SameMeasurements(m, b) == \A k \in Fields(b) : m[k] = b[k]

\* C2: when the persistence call of a flush attempt fails, the accumulator
\* after the attempt equals its value immediately before the attempt (as
\* long as no dispatch or reset changed its measurements in between).
C2_FailedFlushPreserves ==
  (/\ last.op = "rejected"
   /\ SameMeasurements(measures[last.probe], last.flush.before))
  => measures[last.probe] = last.flush.before

\* C3: a failed persistence call emits no notification and resets nothing,
\* the error and the measure are reported to the logger, and the plugin
\* keeps running.
C3_FailedFlushSkips ==
  [][last'.op = "rejected" =>
       /\ measures' = measures
       /\ lastNotifs' = << >>
       /\ lastErrors' = <<[probe |-> last'.probe,
                           measure |-> measures[last'.probe]]>>
       /\ phase' = "ready"
       /\ timers' = timers]_vars

\* the flush of a counter that had counted failed, another one is in flight
C3_Witness ==
  /\ last.op = "rejected"
  /\ P(last.probe).type = "counter"
  /\ measures[last.probe].count # 0
  /\ Len(lastErrors) = 1
  /\ Len(inflight) > 0

\* C4: when a successful flush of a monitor probe completes, every hook of
\* its accumulator is 0.
C4_MonitorReset ==
  (last.op = "resolved" /\ P(last.probe).type = "monitor")
  => \A h \in Range(P(last.probe).hooks) : measures[last.probe][h] = 0

C4_Witness ==
  /\ last.op = "resolved"
  /\ P(last.probe).type = "monitor"
  /\ last.flush.called
  /\ \E h \in Range(P(last.probe).hooks) : lastNotifs[1].data[h] > 0

\* the accumulator of n changes in this step
Updated(n) == \E k \in Fields(measures[n]) : measures'[n][k] # measures[n][k]

\* the persisted body is the accumulator m (its entries, for a content list)
BodyReflects(call, m) ==
  IF call.action = "create" THEN call.body = m
  ELSE [i \in 1..Len(call.body) |-> call.body[i].content] = m.content

\* C5: for a monitor, counter or watcher probe without an interval, every
\* accumulator update of a dispatch comes with exactly one flush initiation
\* for that probe in the same dispatch call, whose persisted body is the
\* accumulator right after the update.
C5_ImmediateFlush ==
  [][last'.op \in {"monitor", "counter", "watcher"} =>
       \A n \in DOMAIN measures :
         (P(n).type \in {"monitor", "counter", "watcher"} /\ ~HasInterval(P(n)))
         => /\ CountOf(lastInits', n) = Bit(Updated(n))
            /\ CallsFor(lastCalls', n) = Bit(Updated(n) /\ ~IsVolatile(P(n)))
            /\ \A i \in 1..Len(lastCalls') :
                 lastCalls'[i].probe = n
                 => BodyReflects(lastCalls'[i], measures'[n])]_vars

\* one dispatch of a monitored event on a fresh probe persists the value 1
C5_Witness ==
  /\ last.op = "monitor"
  /\ last.ev = "e1"
  /\ nDisp = 1
  /\ \E i \in 1..Len(lastCalls) :
       lastCalls[i].probe = "m1" /\ lastCalls[i].body["e1"] = 1

Dispatches == {"monitor", "counter", "watcher", "sampler"}

\* what the flush started by the timer of n has to persist
Carries(n) ==
  LET p == P(n)
      d == sinceReset[n]
      one == Len(lastCalls) = 1 /\ lastCalls[1].probe = n
  IN CASE p.type = "monitor" ->
            one /\ \A h \in Range(p.hooks) : lastCalls[1].body[h] = d[h]
       [] p.type = "counter" -> one /\ lastCalls[1].body.count = d
       [] p.type = "watcher" /\ ~Truthy(p, "collects") ->
            one /\ lastCalls[1].body.count = d
       [] p.type = "watcher" /\ Truthy(p, "collects") ->
            IF d = 0 THEN lastCalls = << >>
            ELSE one /\ Len(lastCalls[1].body) = d
       [] p.type = "sampler" ->
            IF d = 0 THEN lastCalls = << >>
            ELSE one /\ Len(lastCalls[1].body) = Min(d, p.sampleSize.v)

\* C6: for a probe with an interval, and for every sampler probe, a dispatch
\* never initiates a flush, no persistence call is made before the timer
\* fires, and the measure persisted when the timer fires carries everything
\* dispatched to the probe since its previous reset.
C6_DeferredFlush ==
  \A n \in DOMAIN measures :
    (HasInterval(P(n)) \/ P(n).type = "sampler")
    => /\ last.op \in Dispatches => CountOf(lastInits, n) = 0
       /\ CallsFor(lastCalls, n) > 0 => (last.op = "timer" /\ last.probe = n)
       /\ (last.op = "timer" /\ last.probe = n /\ ~IsVolatile(P(n)))
          => Carries(n)

\* C7: one dispatch of an event updates the accumulator of every monitor or
\* counter probe that declared it exactly once (+1 for a hook or increaser,
\* -1 for a decreaser), however often the configuration lists the event,
\* and updates no other probe.
C7_RoutingComplete ==
  [][last'.op \in {"monitor", "counter"} =>
       \A n \in DOMAIN measures :
         LET p == P(n) IN
         CASE p.type = "monitor" ->
                \A h \in Range(p.hooks) :
                  measures'[n][h] = measures[n][h]
                    + Bit(last'.op = "monitor" /\ last'.ev = h)
           [] p.type = "counter" ->
                measures'[n].count = measures[n].count
                  + Bit(last'.op = "counter" /\ last'.ev \in Range(p.increasers))
                  - Bit(last'.op = "counter" /\ last'.ev \in Range(p.decreasers))
           [] OTHER -> measures'[n] = measures[n]]_vars

\* e2, listed twice among the increasers of c2 and a decreaser of c1
C7_Witness ==
  /\ last.op = "counter"
  /\ last.ev = "e2"
  /\ nDisp = 1
  /\ "c2" \in DOMAIN measures
  /\ measures["c2"].count = 1
  /\ measures["c1"].count = -1

\* C8: a sampler dispatch increments by exactly 1 the count of every sampler
\* probe routed on a matched filter id and applies the reservoir step to it
\* (a reservoir that is not full receives the record).
C8_SamplerAllProbes ==
  [][last'.op = "sampler" =>
       \A n \in DOMAIN measures :
         (P(n).type = "sampler" /\ P(n).filterId \in last'.ids)
         => /\ measures'[n].count = measures[n].count + 1
            /\ Len(measures'[n].content)
                 = Min(Len(measures[n].content) + 1, P(n).sampleSize.v)]_vars

\* no compiled probe declared the event
Undeclared(ev) ==
  \A i \in 1..Len(probes) :
    /\ ev \notin Range(ListOf(probes[i], "hooks"))
    /\ ev \notin Range(ListOf(probes[i], "increasers"))
    /\ ev \notin Range(ListOf(probes[i], "decreasers"))

\* C9: the dispatch through monitor or counter of an event that no compiled
\* probe declared raises no error, initiates no flush and changes no
\* accumulator.
C9_UndeclaredEventNoop ==
  [][(last'.op \in {"monitor", "counter"} /\ Undeclared(last'.ev)) =>
       /\ last'.result = "acknowledged"
       /\ lastInits' = << >>
       /\ measures' = measures]_vars

\* a flush of n in flight has a persistence call to wait for
inflight_called(n) ==
  \E i \in 1..Len(inflight) : inflight[i].probe = n /\ inflight[i].called

\* the accumulator of p as its reset leaves it
IsReset(p, m) ==
  CASE p.type = "monitor" -> \A h \in Range(p.hooks) : m[h] = 0
    [] p.type = "counter" -> m.count = Net(p)
    [] OTHER -> \A k \in Fields(m) : m[k] = IF k = "count" THEN 0 ELSE << >>

\* C10: a flush of a volatile probe never issues a persistence call, but
\* emits its notification and applies the reset of the probe's type (a
\* volatile counter keeps its count).
C10_Volatile ==
  \A n \in DOMAIN measures :
    IsVolatile(P(n))
    => /\ CallsFor(lastCalls, n) = 0
       /\ ~inflight_called(n)
       /\ (last.op = "rejected" => last.probe # n)
       /\ (last.op = "resolved" /\ last.probe = n)
          => /\ Len(lastNotifs) = 1
             /\ lastNotifs[1].probeName = n
             /\ IsReset(P(n), measures[n])

C10_Witness ==
  /\ last.op = "resolved"
  /\ IsVolatile(P(last.probe))
  /\ P(last.probe).type = "counter"
  /\ measures[last.probe].count = 1

\* the names in the buckets of the routing table
RoutedIn(buckets) ==
  UNION {Range(buckets[k]) : k \in DOMAIN buckets}

Routed ==
  IF ~Has(eventMapping, "monitor") THEN {}
  ELSE RoutedIn(eventMapping.monitor)
       \cup RoutedIn(eventMapping.counter.increasers)
       \cup RoutedIn(eventMapping.counter.decreasers)
       \cup RoutedIn(eventMapping.watcher)
       \cup RoutedIn(eventMapping.sampler)

\* the probe of the store, the routing table or the compiled set
Active == Names(probes) \cup Routed \cup DOMAIN measures

\* the definitions of the configuration that satisfy Bad
Defined(Bad(_)) ==
  {config[i].name : i \in {j \in 1..Len(config) : Bad(config[j].def)}}

Overlap(d) ==
  /\ Has(d, "type") /\ d.type = "counter"
  /\ Range(ListOf(d, "increasers")) \cap Range(ListOf(d, "decreasers")) # {}

\* C11: a counter probe whose increasers and decreasers share an event is
\* never in the compiled probe set, in the routing table or in the
\* measurement store.
C11_ConflictAbsent == Defined(Overlap) \cap Active = {}

\* init was given such a counter after a valid one, and threw
C11_Witness ==
  /\ Defined(Overlap) = {"bad"}
  /\ Len(config) = 2
  /\ last.op = "init"
  /\ last.result = "throw"
  /\ last.probe = "bad"

\* the definition passes every check of _configureProbes
Valid(e) == ConfigureOne(e.name, e.def).ok

\* the compiled probe without what init adds after the compilation
Compiled(p) == IF Has(p, "filterId") THEN Without(p, "filterId") ELSE p

\* C12: compiling a configuration with valid and invalid definitions yields
\* exactly the valid ones, each with its normalized fields, and none of the
\* invalid ones.
C12_ExactlyValid ==
  phase # "constructed"
  => /\ Names(probes) = {config[i].name : i \in {j \in 1..Len(config) :
                                                   Valid(config[j])}}
     /\ \A i \in 1..Len(probes) : \E j \in 1..Len(config) :
          /\ config[j].name = probes[i].name
          /\ Compiled(probes[i]) = ConfigureOne(config[j].name, config[j].def).probe

\* the first definition of the configuration c that fails a check
FirstInvalid(c) ==
  c[CHOOSE j \in 1..Len(c) :
      ~Valid(c[j]) /\ \A k \in 1..(j - 1) : Valid(c[k])].name

C14_SamplerInterval ==
  \A i \in 1..Len(probes) :
    probes[i].type = "sampler"
    => /\ Has(probes[i], "interval")
       /\ probes[i].interval.t = "number"
       /\ probes[i].interval.v > 0

\* the milliseconds the interval of the definition d resolves to
Resolved(d) ==
  IF d.interval.t = "string" THEN ms(d.interval.v) ELSE d.interval.v

NotPositive(d) ==
  /\ Has(d, "interval")
  /\ d.interval.t \in {"string", "number"}
  /\ ~isNaN(Resolved(d))
  /\ Resolved(d) <= 0

\* C15: a definition whose interval resolves to zero or to a negative
\* number of milliseconds is rejected: its probe is never active.
C15_IntervalRejected == Defined(NotPositive) \cap Active = {}

NoSampleSize(d) ==
  /\ Has(d, "type") /\ d.type = "sampler"
  /\ \/ ~Has(d, "sampleSize")
     \/ d.sampleSize.t # "number"
     \/ d.sampleSize.v <= 0

\* C16: a sampler definition whose sampleSize is absent, not a number, zero
\* or negative is rejected: its probe is never active.
C16_SampleSizeRejected == Defined(NoSampleSize) \cap Active = {}

\* the sampler probes that have an accumulator before and after the step
Samplers ==
  {n \in DOMAIN measures \cap DOMAIN measures' : P(n).type = "sampler"}

\* the record that the probe p collects from the document doc
Record(doc, p) == _collectData(doc, doc.body, p.collects).collected

\* the accumulator went from m to m2 by one reservoir step with the record
Stepped(m, m2, sampleSize, record) ==
  /\ m2.count = m.count + 1
  /\ IF Len(m.content) < sampleSize
     THEN m2.content = Append(m.content, record)
     ELSE \E j \in 0..(m2.count - 1) :
            IF j < sampleSize
            THEN m2.content = [m.content EXCEPT ![j + 1] = record]
            ELSE m2.content = m.content

\* C17: a record delivered to a sampler probe increases count by exactly 1
\* and is appended while content is shorter than sampleSize; otherwise it
\* replaces content[j] for a j drawn in [0, count - 1] if and only if
\* j < sampleSize; count goes back to 0 by the flush reset only.
C17_ReservoirStep ==
  [][\A n \in Samplers :
       /\ (last'.op = "sampler" /\ measures'[n] # measures[n])
          => Stepped(measures[n], measures'[n], P(n).sampleSize.v,
                     Record(last'.doc, P(n)))
       /\ measures'[n].count < measures[n].count
          => /\ last'.op = "resolved"
             /\ last'.probe = n
             /\ measures'[n].count = 0]_vars

\* the second record delivered to s1 (sampleSize 1) replaced the first one
C17_Witness ==
  /\ last.op = "sampler"
  /\ "s1" \in DOMAIN measures
  /\ measures["s1"].count = 2
  /\ last.doc = Docs[2]
  /\ measures["s1"].content = <<Docs[2].body>>

\* C18: in every reachable state a sampler accumulator has
\* content.length <= sampleSize and content.length = min(count, sampleSize),
\* for every sampleSize that the configuration compiler accepts.
C18_ReservoirBound ==
  \A n \in DOMAIN measures :
    P(n).type = "sampler"
    => /\ Len(measures[n].content) <= P(n).sampleSize.v
       /\ Len(measures[n].content) = Min(measures[n].count, P(n).sampleSize.v)

\* One window of N records 1..N delivered to a probe of the given
\* sampleSize.  A draw sequence gives the position drawn for each record;
\* the random engine draws each position uniformly, and the number of
\* positions does not depend on earlier draws, so all draw sequences are
\* equally likely.
Empty == [content |-> << >>, count |-> 0]

RECURSIVE Window(_, _, _, _, _)
Window(m, sampleSize, i, N, draws) ==
  IF i > N THEN m
  ELSE Window(ReservoirStep(m, sampleSize, i, draws[i]), sampleSize, i + 1,
              N, draws)

DrawSequences(sampleSize, N) ==
  {d \in [1..N -> 0..N] :
     \A i \in 1..N :
       IF i <= sampleSize THEN d[i] = 0
       ELSE d[i] \in Positions([Empty EXCEPT !.count = i - 1])}

\* record r is in content at the end of sampleSize/N of the draw sequences
Uniform(sampleSize, N) ==
  LET D == DrawSequences(sampleSize, N) IN
  \A r \in 1..N :
    N * Cardinality({d \in D :
                       r \in Range(Window(Empty, sampleSize, 1, N, d).content)})
      = sampleSize * Cardinality(D)

\* for each sampleSize, whether every longer window is sampled uniformly
UniformWindows ==
  [sampleSize \in 1..MaxStream |->
     \A N \in (sampleSize + 1)..MaxStream : Uniform(sampleSize, N)]

\* C19: for a window of N > sampleSize records delivered to a sampler
\* probe, every record is in content at the flush of the window with the
\* same probability sampleSize/N.
C19_Uniform ==
  \A n \in DOMAIN measures :
    (P(n).type = "sampler" /\ P(n).sampleSize.v > 0)
    => UniformWindows[P(n).sampleSize.v]

\* the timer of a sampler fires on a window of more records than sampleSize
C19_Witness ==
  /\ last.op = "timer"
  /\ P(last.probe).type = "sampler"
  /\ P(last.probe).sampleSize.v > 0
  /\ measures[last.probe].count > P(last.probe).sampleSize.v
  /\ Len(lastCalls) = 1

\* the collected object c is what the claim describes for the document doc
\* and the collects specification
CollectedAsSpecified(c, doc, collects) ==
  LET paths == {toPath(collects.v[i]) : i \in 1..Len(collects.v)} IN
  /\ IF collects.t = "string"
     THEN \A q \in DOMAIN c \cup DOMAIN doc.body :
            q # <<"_id">> => q \in DOMAIN c /\ q \in DOMAIN doc.body
                             /\ c[q] = doc.body[q]
     ELSE /\ \A path \in paths : Get(c, path) = Get(doc.body, path)
          /\ \A q \in DOMAIN c :
               q = <<"_id">> \/ \E path \in paths : IsPrefix(path, q)
  /\ <<"_id">> \in DOMAIN c <=> Has(doc, "_id")
  /\ Has(doc, "_id") => c[<<"_id">>] = doc._id

\* the probes that collect
Collecting ==
  {n \in DOMAIN measures : Has(measures[n], "content")}

\* C20: the object collected for a list of fields holds, for each listed
\* dotted path, the value found at that path in the body, with the same
\* nesting, and no field that is not listed; for the wildcard it is the
\* whole body; the record identifier is attached under _id if and only if
\* the document has one.
C20_Collected ==
  [][last'.op \in {"watcher", "sampler"} =>
       \A n \in Collecting :
         \A k \in 1..Len(measures'[n].content) :
           (k > Len(measures[n].content)
            \/ measures'[n].content[k] # measures[n].content[k])
           => CollectedAsSpecified(measures'[n].content[k], last'.doc,
                                   P(n).collects)]_vars

\* w2 collected a.x and b.z from {a: {x: 1, y: 2}, b: 2}, identified by 7
C20_Witness ==
  /\ last.op = "watcher"
  /\ last.doc = Docs[1]
  /\ "w2" \in DOMAIN measures
  /\ Len(measures["w2"].content) = 1
  /\ measures["w2"].content[1] =
       (<<"a", "x">> :> 1) @@ (<<"b", "z">> :> undefined) @@ (<<"_id">> :> 7)

\* C21: startProbes arms one repeating timer for a probe if and only if
\* the probe has an interval and its collection was provisioned; a probe
\* without an interval, or whose collection creation failed, gets none.
C21_TimerArmed ==
  [][last'.op = "startProbes" =>
       \A n \in DOMAIN timers :
         timers'[n] - timers[n] =
           Bit(/\ HasInterval(P(n))
               /\ last'.result = "ok"
               /\ n \notin last'.failing)]_vars

\* a probe with an interval got its timer, another one, whose collection
\* could not be created, got none
C21_Witness ==
  /\ last.op = "startProbes"
  /\ last.result = "ok"
  /\ \E n \in DOMAIN timers : HasInterval(P(n)) /\ timers[n] = 1
  /\ \E n \in DOMAIN timers \cap last.failing : HasInterval(P(n)) /\ timers[n] = 0

\* the watcher probes matched by the document of the last dispatch
Matched(type) ==
  {n \in DOMAIN measures :
     P(n).type = type /\ Has(P(n), "filterId") /\ P(n).filterId \in last.ids}

\* C22: a watcher dispatch appends exactly one collected record to the
\* content of every matched watcher probe that collects (the entries
\* already there are left as they are, in their order) and adds exactly 1
\* to the count of every other matched watcher probe; a watcher
\* accumulator holds exactly one of content and count in every state.
C22_WatcherUpdate ==
  /\ [][last'.op = "watcher" =>
          \A n \in Matched("watcher")' :
            IF Truthy(P(n), "collects")
            THEN /\ Len(measures'[n].content) = Len(measures[n].content) + 1
                 /\ SubSeq(measures'[n].content, 1, Len(measures[n].content))
                      = measures[n].content
            ELSE measures'[n].count = measures[n].count + 1]_vars
  /\ [](\A n \in DOMAIN measures :
          P(n).type = "watcher"
          => (Has(measures[n], "content") <=> ~Has(measures[n], "count")))

\* the accumulator m is the zero state of the probe p
IsZero(m, p) ==
  CASE p.type = "monitor" ->
         DOMAIN m = Range(p.hooks) /\ \A h \in DOMAIN m : m[h] = 0
    [] p.type = "counter" -> DOMAIN m = {"count"} /\ m.count = 0
    [] p.type = "watcher" ->
         IF Truthy(p, "collects")
         THEN DOMAIN m = {"content"} /\ Len(m.content) = 0
         ELSE DOMAIN m = {"count"} /\ m.count = 0
    [] p.type = "sampler" ->
         DOMAIN m = {"content", "count"} /\ Len(m.content) = 0 /\ m.count = 0
    [] OTHER -> FALSE

\* C23: when init has completed successfully, measures holds exactly one
\* accumulator per compiled probe, in its zero state, and every probe of
\* the routing table is a compiled probe.
C23_ZeroAtInit ==
  [][(last'.op \in {"init", "initResolved"} /\ phase' = "ready") =>
       /\ DOMAIN measures' = Names(probes')
       /\ \A n \in DOMAIN measures' :
            IsZero(measures'[n], ProbeNamed(probes', n))
       /\ Routed' \subseteq Names(probes')]_vars

\* init completed for a configuration with a sampler, which is routed
C23_Witness ==
  /\ last.op = "initResolved"
  /\ phase = "ready"
  /\ \E n \in DOMAIN measures : P(n).type = "sampler" /\ n \in Routed

\* C24: for a monitor probe and each of its hooks, once no flush is in
\* flight, the number of dispatches of the hook is the sum of its values in
\* the measures persisted with success (notified, for a volatile probe)
\* plus its value in the accumulator.
C24_MonitorConserved ==
  (phase = "ready" /\ Len(inflight) = 0)
  => \A n \in DOMAIN measures :
       P(n).type = "monitor"
       => \A h \in Range(P(n).hooks) :
            sent.monitor[h] = stored[n][h] + measures[n][h]

\* the number of x in the bag b
InBag(b, x) == IF x \in DOMAIN b THEN b[x] ELSE 0

\* C25: for a watcher probe that collects, once no flush is in flight,
\* every record it has collected is in exactly one bulk persistence call
\* that succeeded, or still in content: none was dropped by a reset and
\* none was persisted twice.
C25_RecordsConserved ==
  (phase = "ready" /\ Len(inflight) = 0)
  => \A n \in DOMAIN measures :
       (P(n).type = "watcher" /\ Has(measures[n], "content"))
       => \A x \in DOMAIN records[n] \cup DOMAIN stored[n] :
            InBag(records[n], x)
              = InBag(stored[n], x) + CountOf(measures[n].content, x)

\* the filter ids of the last dispatch that have no bucket on its route
Foreign ==
  {id \in last.ids : ~Has(eventMapping[last.op], id)}

\* the accumulator of n has taken the document of the dispatch in
TookIn(n) ==
  IF Has(measures[n], "count")
  THEN measures'[n].count = measures[n].count + 1
  ELSE Len(measures'[n].content) = Len(measures[n].content) + 1

\* C26: a watcher or sampler dispatch whose matcher result holds a filter
\* id without a probe on that route raises no error, and the probes routed
\* on the other matched ids are updated.
C26_ForeignIdNoop ==
  [][(last'.op \in {"watcher", "sampler"} /\ Foreign' # {}) =>
       /\ last'.result # "TypeError"
       /\ \A n \in Matched(last.op)' : TookIn(n)]_vars

\* a persistence call of the probe n is pending among the flushes fs
Pending(fs, n) == \E k \in 1..Len(fs) : fs[k].probe = n /\ fs[k].called

\* C27: for a flush attempt of a non-volatile probe, the notification and
\* the reset happen only when the persistence call of the attempt has
\* resolved with success, the notification carries the accumulator as it
\* is before the reset, and the dispatch or timer callback that initiated
\* the flush ends with the call still pending, nothing notified.
C27_FlushOrder ==
  [][/\ last'.op \in Dispatches \cup {"timer"} =>
          /\ lastNotifs' = << >>
          /\ Len(inflight') = Len(inflight) + Len(lastInits')
          /\ \A i \in 1..Len(lastCalls') :
               Pending(inflight', lastCalls'[i].probe)
     /\ last'.op = "rejected" =>
          /\ lastNotifs' = << >>
          /\ measures' = measures
     /\ (last'.op = "resolved" /\ ~IsVolatile(P(last'.probe))) =>
          /\ last'.flush \in Range(inflight)
          /\ lastNotifs' =
               <<[probeName |-> last'.probe,
                  data |-> JsonMeasure(measures[last'.probe])]>>
          /\ measures' =
               [measures EXCEPT
                  ![last'.probe] = _resetMeasure(P(last'.probe), @)]]_vars

\* the persistence call of a non-volatile probe resolved: the notification
\* carries an accumulator that is not the reset one
C27_Witness ==
  /\ last.op = "resolved"
  /\ last.flush.called
  /\ ~IsVolatile(P(last.probe))
  /\ Len(lastNotifs) = 1
  /\ lastNotifs[1].data # JsonMeasure(measures[last.probe])

\* C28: every flush whose persistence succeeded, and every flush of a
\* volatile probe, emits exactly one notification, which carries the name
\* of the probe and a deep copy of the accumulator as it is immediately
\* before the reset.
C28_NotifiedCopy ==
  [][(/\ last'.op = "resolved"
      /\ (last'.flush.called \/ IsVolatile(P(last'.probe)))) =>
       lastNotifs' =
         <<[probeName |-> last'.probe, data |-> measures[last'.probe]]>>]_vars

\* the measure m without the time of the persistence call
Counts(m) == [k \in DOMAIN m \ {"timestamp"} |-> m[k]]

\* C29: the notification emitted by a flush carries the same counts or
\* content as the measure persisted by that flush, whatever was dispatched
\* between the persistence call and its completion.
C29_NotifiedIsPersisted ==
  [][(last'.op = "resolved" /\ last'.flush.called) =>
       /\ Len(lastNotifs') = 1
       /\ Counts(lastNotifs'[1].data)
            = Counts(JsonMeasure(last'.flush.before))]_vars

\* C30: in every reachable state there is at most one repeating flush
\* timer per probe, whatever was invoked.
C30_OneTimer ==
  \A n \in DOMAIN timers : timers[n] <= 1

\* the last operation is a dispatch that updated the accumulator of n
Delivers(n) ==
  /\ n \in DOMAIN measures
  /\ last.result = "acknowledged"
  /\ last.op = P(n).type
  /\ CASE last.op = "monitor" -> last.ev \in Range(P(n).hooks)
       [] last.op = "counter" ->
            last.ev \in Range(P(n).increasers) \cup Range(P(n).decreasers)
       [] OTHER -> P(n).filterId \in last.ids

\* the last operation is a flush attempt for n
Attempts(n) == last.op = "timer" /\ last.probe = n /\ CountOf(lastInits, n) = 1

\* C31: for every probe with an interval, once startProbes has run, every
\* update of its accumulator is eventually followed by a flush attempt for
\* the probe, the timers firing fairly.
C31_EventuallyFlushed ==
  \A i \in Slots :
    (/\ started
     /\ i \in DOMAIN probes
     /\ Delivers(probes[i].name)
     /\ HasInterval(probes[i]))
    ~> (i \in DOMAIN probes /\ Attempts(probes[i].name))

\* the probe n is a target of the dispatch recorded in l
Aimed(n, l) ==
  /\ l.op = P(n).type
  /\ CASE l.op = "monitor" -> l.ev \in Range(P(n).hooks)
       [] l.op = "counter" ->
            l.ev \in Range(P(n).increasers) \cup Range(P(n).decreasers)
       [] l.op = "watcher" -> P(n).filterId \in l.ids
       [] OTHER -> FALSE

\* the flushes of n among fs
FlushesOf(fs, n) == SelectSeq(fs, LAMBDA f : f.probe = n)

\* C32: every target of one dispatch has its accumulator updated and, when
\* it has no interval, its flush initiated, whatever becomes of the
\* persistence calls of the other targets; a persistence call that fails
\* leaves the accumulators and the flushes in flight of the other probes as
\* they are.
C32_NotTransactional ==
  [][/\ (last'.op \in {"monitor", "counter", "watcher"}
          /\ last'.result = "acknowledged")
         => \A n \in DOMAIN measures :
              Aimed(n, last')
              => /\ Updated(n)
                 /\ ~HasInterval(P(n))
                    => /\ CountOf(lastInits', n) = 1
                       /\ Len(FlushesOf(inflight', n))
                            = Len(FlushesOf(inflight, n)) + 1
     /\ last'.op = "rejected"
         => \A n \in DOMAIN measures \ {last'.probe} :
              /\ measures'[n] = measures[n]
              /\ FlushesOf(inflight', n) = FlushesOf(inflight, n)]_vars

\* one dispatch had two persistence calls issued; the first has failed and
\* the second, of another probe that counted the event, is awaited
C32_Witness ==
  /\ last.op = "rejected"
  /\ nDisp + nDocs = 1
  /\ Len(inflight) = 1
  /\ inflight[1].called
  /\ inflight[1].probe # last.probe
  /\ measures[inflight[1].probe].count = 1
  /\ measures[last.probe].count = 1

\* the accumulator m has a content list, which is empty
EmptyContent(m) == Has(m, "content") /\ Len(m.content) = 0

\* C33: a flush of an accumulator whose content list is empty issues no
\* persistence call and fails in no way: it goes on to the notification and
\* to the reset, after which content is empty and count is 0.
C33_EmptyFlush ==
  [][/\ \A k \in (Len(inflight') - Len(lastInits') + 1)..Len(inflight') :
          EmptyContent(inflight'[k].before)
          => /\ ~inflight'[k].called
             /\ CallsFor(lastCalls', inflight'[k].probe) = 0
             /\ lastErrors' = << >>
     /\ (last'.op = "rejected") => ~EmptyContent(last'.flush.before)
     /\ (last'.op = "resolved" /\ EmptyContent(last'.flush.before))
         => /\ lastNotifs' = <<_notifyMeasure(P(last'.probe), measures[last'.probe])>>
            /\ lastErrors' = << >>
            /\ lastCalls' = << >>
            /\ EmptyContent(measures'[last'.probe])
            /\ Has(measures'[last'.probe], "count")
                => measures'[last'.probe].count = 0]_vars

\* the timer of a sampler fired before any document had come, and the
\* flush has completed
C33_Witness ==
  /\ last.op = "resolved"
  /\ EmptyContent(last.flush.before)
  /\ ~last.flush.called
  /\ P(last.probe).type = "sampler"
  /\ ~IsVolatile(P(last.probe))
  /\ Len(lastNotifs) = 1

\* the persistence call is the one the flush of the accumulator m has to
\* issue at the time t
Persists(call, m, t) ==
  IF Has(m, "content")
  THEN /\ call.action = "import"
       /\ call.body = [i \in 1..Len(m.content) |->
                         [timestamp |-> t, content |-> m.content[i]]]
  ELSE /\ call.action = "create"
       /\ call.body = With(m, "timestamp", t)

\* C34: a flush of an accumulator with a content list that is not empty
\* issues exactly one bulk call, of one record per entry of content, in
\* the order of content, all with the timestamp of the flush; a flush of an
\* accumulator without content issues exactly one call creating a single
\* document, the accumulator with the timestamp (a volatile probe, which
\* persists nothing, apart).
C34_PersistedShape ==
  [][\A k \in (Len(inflight') - Len(lastInits') + 1)..Len(inflight') :
       LET f == inflight'[k] IN
       (~IsVolatile(P(f.probe)) /\ ~EmptyContent(f.before))
       => /\ f.called
          /\ CallsFor(lastCalls', f.probe) = 1
          /\ \A i \in 1..Len(lastCalls') :
               lastCalls'[i].probe = f.probe
               => Persists(lastCalls'[i], f.before, now')]_vars

\* the timer of a sampler fired with two records in its content
C34_Witness ==
  /\ last.op = "timer"
  /\ Len(lastCalls) = 1
  /\ lastCalls[1].action = "import"
  /\ Len(lastCalls[1].body) = 2
  /\ lastCalls[1].body[1].content # lastCalls[1].body[2].content
  /\ lastCalls[1].body[1].timestamp = now

\* C35: the accumulator of a monitor probe has the configured hooks of the
\* probe as its keys, and no other, in every state, and is the map of the
\* hooks to 0 when a successful flush of the probe has completed.
C35_MonitorKeys ==
  \A n \in DOMAIN measures :
    P(n).type = "monitor"
    => /\ DOMAIN measures[n] = Range(P(n).hooks)
       /\ (last.op = "resolved" /\ last.probe = n)
          => measures[n] = [h \in Range(P(n).hooks) |-> 0]

KnownTypes == {"monitor", "counter", "watcher", "sampler"}

\* the definition d has no known type, or is a counter without increasers
\* or without decreasers
NotAProbe(d) ==
  \/ ~Has(d, "type")
  \/ d.type \notin KnownTypes
  \/ d.type = "counter" /\ (~Has(d, "increasers") \/ ~Has(d, "decreasers"))

\* C36: a probe whose type is none of the four known types, and a counter
\* without increasers or without decreasers, is never in the compiled probe
\* set, in the routing table or in the measurement store, whatever the
\* outcome of init, once init has completed.
C36_UnknownAbsent ==
  phase \in {"ready", "failed"} => Defined(NotAProbe) \cap Active = {}

\* the registrations the matcher received for the probe n
RegisteredFor(n) ==
  {k \in 1..Len(dsl.registered) : dsl.registered[k].probe = n}

\* C37: init registers every compiled watcher and sampler probe with the
\* matcher exactly once, with its index, collection and filter, and no
\* monitor or counter probe; nothing is routed and no accumulator exists
\* while the registrations are awaited, and afterwards every watcher and
\* sampler probe is routed on the id its own registration got.
C37_RegisteredOnce ==
  /\ phase = "preparing"
     => eventMapping = << >> /\ measures = << >> /\ dsl = << >>
  /\ (phase = "ready" /\ Len(probes) > 0)
     => /\ Len(dsl.registered)
            = Cardinality({i \in 1..Len(probes) :
                             probes[i].type \in {"watcher", "sampler"}})
        /\ \A i \in 1..Len(probes) :
             LET p == probes[i] IN
             IF p.type \in {"watcher", "sampler"}
             THEN \E k \in RegisteredFor(p.name) :
                    /\ RegisteredFor(p.name) = {k}
                    /\ dsl.registered[k].index = p.index
                    /\ dsl.registered[k].collection = p.collection
                    /\ dsl.registered[k].filter = p.filter
                    /\ p.filterId = dsl.registered[k].id
                    /\ Has(eventMapping[p.type], p.filterId)
                    /\ CountOf(eventMapping[p.type][p.filterId], p.name) = 1
             ELSE RegisteredFor(p.name) = {}

\* init has completed for a watcher and a sampler registered on different
\* filters
C37_Witness ==
  /\ phase = "ready"
  /\ Len(probes) = 2
  /\ Len(dsl.registered) = 2
  /\ dsl.registered[1].id # dsl.registered[2].id
  /\ probes[1].type = "watcher"
  /\ probes[2].type = "sampler"

\* C38: after a watcher or sampler dispatch, the body of the document handed
\* to it is what it was before the dispatch.
C38_BodyUntouched ==
  last.op \in {"watcher", "sampler"} => last.body = last.doc.body

\* C39: a dispatch (monitor, counter, watcher, sampler) that raises no
\* error resolves with {acknowledged: true}.
C39_Acknowledged ==
  (last.op \in Dispatches /\ last.result # "TypeError")
  => last.result = "acknowledged"

====
